---- MODULE Spec2Model ----
(***************************************************************************)
(* Buzz scoring engine of reddit-buzz-scraper.py: per-item contributions,  *)
(* outlier capping, percentile normalisation and the two-pass batch of     *)
(* main().                                                                 *)
(*                                                                         *)
(* Numbers.  Python floats are modelled as fixed-point integers: the       *)
(* integer v stands for the real v / Scale.  Products and quotients round  *)
(* to the nearest representable value, symmetrically around zero, as IEEE  *)
(* arithmetic does.  Timestamps are whole seconds.                         *)
(***************************************************************************)
EXTENDS Integers, Sequences, FiniteSets

VARIABLES
    clock,           \* wall clock, seconds since the epoch (datetime.now)
    all_results,     \* main: <<[mentions, news_articles]>>, one per prospect
    all_raw_scores,  \* main: the peer batch built by pass 1
    final_results,   \* main: BuzzResults produced by pass 2
    pc,              \* main: "pass1" | "pass2" | "done" | "crashed" ("idle": no batch)
    run,             \* "first" | "second": batch run over the same item lists
    prev_results,    \* final_results of the first run
    nows,            \* per run, every value of now its steps have read
    raw_pass2,       \* unrounded raw_buzz of each calculate_buzz_result call
    writes,          \* per prospect and mention: assignments to contribution in this run
    call             \* a single call of one engine function: arguments, result

vars == <<clock, all_results, all_raw_scores, final_results, pc,
          run, prev_results, nows, raw_pass2, writes, call>>

(***************************************************************************)
(* Fixed-point arithmetic                                                  *)
(***************************************************************************)
Scale == 10 * 10

DAY == 24 * 3600

Abs(x) == IF x < 0 THEN -x ELSE x

Min(a, b) == IF a < b THEN a ELSE b

Max(a, b) == IF a > b THEN a ELSE b

\* n / d for d > 0, rounded to nearest.
RoundDiv(n, d) ==
    IF n >= 0 THEN (2 * n + d) \div (2 * d) ELSE -((2 * (-n) + d) \div (2 * d))

\* float * float
Mul(a, b) == RoundDiv(a * b, Scale)

\* float / float
Div(a, b) == IF b > 0 THEN RoundDiv(a * Scale, b) ELSE RoundDiv(-(a * Scale), -b)

\* round(x, ndigits): to the nearest multiple of unit, ties to even.
Round(x, unit) ==
    LET q == x \div unit
        r == x - q * unit
    IN  IF 2 * r < unit THEN q * unit
        ELSE IF 2 * r > unit THEN (q + 1) * unit
        ELSE IF q % 2 = 0 THEN q * unit ELSE (q + 1) * unit

\* math.log10 of a positive integer: exact on d * 10^k for one digit d, the
\* lower digits of other arguments are dropped.
RECURSIVE log10(_)
log10(x) ==
    IF x >= 10 THEN Scale + log10(x \div 10)
    ELSE <<0, 30, 48, 60, 70, 78, 85, 90, 95>>[x]

\* e^(-k/10) for k = 0..60, in units of 1/10000.
DecayPowers ==
    <<
      10000, 9048, 8187, 7408, 6703, 6065, 5488, 4966, 4493, 4066, 3679,
      3329, 3012, 2725, 2466, 2231, 2019, 1827, 1653, 1496, 1353, 1225,
      1108, 1003, 907, 821, 743, 672, 608, 550, 498, 450, 408, 369, 334,
      302, 273, 247, 224, 202, 183, 166, 150, 136, 123, 111, 101, 91, 82,
      74, 67, 61, 55, 50, 45, 41, 37, 33, 30, 27, 25
    >>

\* e^(k/10) for k = 0..20, in units of 1/10000.
GrowthPowers ==
    <<
      10000, 11052, 12214, 13499, 14918, 16487, 18221, 20138, 22255,
      24596, 27183, 30042, 33201, 36693, 40552, 44817, 49530, 54739,
      60496, 66859, 73891
    >>

\* math.exp(x / Scale) in units of 1/10000: the whole tenths of x from the
\* tables, the rest by its Taylor polynomial.
ExpFine(x) ==
    LET k == Abs(x) \div 10
        r == IF x < 0 THEN x + 10 * k ELSE x - 10 * k
        rest == 10000 + 100 * r + (r * r) \div 2 + RoundDiv(r * r * r, 600)
    IN  RoundDiv((IF x < 0 THEN DecayPowers ELSE GrowthPowers)[k + 1] * rest, 10000)

exp(x) == RoundDiv(ExpFine(x), 10000 \div Scale)

RECURSIVE Sum(_)
Sum(s) == IF s = <<>> THEN 0 ELSE Head(s) + Sum(Tail(s))

RECURSIVE Insert(_, _)
Insert(x, s) ==
    IF s = <<>> THEN <<x>>
    ELSE IF x < Head(s) THEN <<x>> \o s
    ELSE <<Head(s)>> \o Insert(x, Tail(s))

\* sorted(all_scores)
RECURSIVE sorted(_)
sorted(s) == IF s = <<>> THEN <<>> ELSE Insert(Head(s), sorted(Tail(s)))

(***************************************************************************)
(* Configuration                                                           *)
(***************************************************************************)
DECAY_LAMBDA == 10

MAX_SINGLE_POST_CONTRIBUTION == 25

NEWS_BASE_POINTS == 8

NEWS_SENTIMENT_POSITIVE == 120

NEWS_SENTIMENT_NEGATIVE == -100

NEWS_SENTIMENT_NEUTRAL == 30

MAX_SINGLE_NEWS_CONTRIBUTION == 25

GNEWS_MAX_ARTICLES == 10

\* SUBREDDITS.get(name, 1.0)
SUBREDDITS(name) ==
    CASE name = "fantasybaseball" -> 150
      [] name = "MLBProspects" -> 130
      [] name = "MinorLeagueBaseball" -> 120
      [] name = "baseball" -> 100
      [] OTHER -> 100

(***************************************************************************)
(* Data classes                                                            *)
(***************************************************************************)
Mention(id, subreddit, type, score, num_comments, created_utc, sentiment, confidence) ==
    [id |-> id, subreddit |-> subreddit, type |-> type, score |-> score,
     num_comments |-> num_comments, created_utc |-> created_utc,
     sentiment |-> sentiment, confidence |-> confidence, contribution |-> 0]

NewsArticle(title, published_ts, sentiment) ==
    [title |-> title, published_ts |-> published_ts, sentiment |-> sentiment,
     contribution |-> 0]

\* NewsScraper.search_prospect: the timestamp of a scraped item.  publishedAt
\* is missing, or a string that datetime.fromisoformat rejects, or a valid
\* ISO date: only the last yields a timestamp, the others leave 0.
published_ts(item) ==
    IF item.publishedAt = "iso" THEN item.ts ELSE 0

(***************************************************************************)
(* BuzzCalculator.calculate_raw_buzz                                       *)
(***************************************************************************)
base_points(type) ==
    CASE type = "title" -> 10
      [] type = "body" -> 5
      [] type = "comment" -> 2
      [] OTHER -> 2

engagement(m) ==
    (Scale + log10(1 + m.score))
      + (IF m.num_comments > 0 THEN Mul(Scale \div 2, log10(1 + m.num_comments)) ELSE 0)

\* (now - mention_time).days: timedelta.days is the floor, negative for a
\* mention_time after now.
days_old(m, now) == (now - m.created_utc) \div DAY

sentiment_mod(sentiment) ==
    CASE sentiment = "positive" -> 120
      [] sentiment = "negative" -> 70
      [] sentiment = "neutral" -> 100
      [] OTHER -> 100

\* Faulty variant: mention.contribution += contribution instead of = contribution.
mention_contribution_accumulated(m, now) ==
    LET decay == exp(-(DECAY_LAMBDA * days_old(m, now)))
    IN  m.contribution
          + Mul(Mul(Mul(Mul(base_points(m.type) * engagement(m), SUBREDDITS(m.subreddit)),
                        decay), sentiment_mod(m.sentiment)), m.confidence)

mention_contribution(m, now) ==
    LET decay == exp(-(DECAY_LAMBDA * days_old(m, now)))
    IN  Mul(Mul(Mul(Mul(base_points(m.type) * engagement(m), SUBREDDITS(m.subreddit)),
                    decay), sentiment_mod(m.sentiment)), m.confidence)

\* The loop over mentions from position k on.  math.log10 raises ValueError
\* for an argument <= 0: the loop stops there, the mentions before it keep
\* the contribution already written.  written counts the assignments to
\* mention.contribution: one for each mention before the end of the loop.
RECURSIVE raw_buzz_loop(_, _, _, _)
raw_buzz_loop(mentions, now, k, total) ==
    IF k > Len(mentions)
    THEN [raised |-> FALSE, total |-> total, mentions |-> mentions, written |-> k - 1]
    ELSE IF 1 + mentions[k].score <= 0
    THEN [raised |-> TRUE, total |-> total, mentions |-> mentions, written |-> k - 1]
    ELSE LET contribution == mention_contribution(mentions[k], now)
         IN  raw_buzz_loop([mentions EXCEPT ![k].contribution = contribution],
                           now, k + 1, total + contribution)

calculate_raw_buzz(mentions, now) == raw_buzz_loop(mentions, now, 1, 0)

(***************************************************************************)
(* BuzzCalculator.calculate_news_contribution                              *)
(***************************************************************************)
news_sentiment_mod(sentiment) ==
    CASE sentiment = "positive" -> NEWS_SENTIMENT_POSITIVE
      [] sentiment = "negative" -> NEWS_SENTIMENT_NEGATIVE
      [] sentiment = "neutral" -> NEWS_SENTIMENT_NEUTRAL
      [] OTHER -> NEWS_SENTIMENT_NEUTRAL

news_cutoff_30d(now) == now - 30 * 24 * 3600

news_item_contribution(article, now) ==
    LET article_days_old == Div(now - article.published_ts, DAY)
        decay == exp(Mul(-DECAY_LAMBDA, article_days_old))
    IN  Mul(NEWS_BASE_POINTS * decay, news_sentiment_mod(article.sentiment))

\* First loop: contribution of every article inside the window.
RECURSIVE news_sum_loop(_, _, _, _)
news_sum_loop(articles, now, k, total) ==
    IF k > Len(articles) THEN [total |-> total, news_articles |-> articles]
    ELSE IF articles[k].published_ts < news_cutoff_30d(now)
    THEN news_sum_loop(articles, now, k + 1, total)
    ELSE LET contribution == news_item_contribution(articles[k], now)
         IN  news_sum_loop([articles EXCEPT ![k].contribution = contribution],
                           now, k + 1, total + contribution)

\* Faulty variant of the second loop: the articles are clamped but the excess
\* is not taken out of the running total.
RECURSIVE news_cap_loop_keeps_total(_, _, _, _, _)
news_cap_loop_keeps_total(articles, now, k, total, abs_total) ==
    IF k > Len(articles) THEN [total |-> total, news_articles |-> articles]
    ELSE IF articles[k].published_ts < news_cutoff_30d(now)
    THEN news_cap_loop_keeps_total(articles, now, k + 1, total, abs_total)
    ELSE LET cap == Mul(abs_total, MAX_SINGLE_NEWS_CONTRIBUTION)
             c == articles[k].contribution
         IN  IF Abs(c) > cap
             THEN news_cap_loop_keeps_total(
                      [articles EXCEPT ![k].contribution = IF c > 0 THEN cap ELSE -cap],
                      now, k + 1, total, abs_total)
             ELSE news_cap_loop_keeps_total(articles, now, k + 1, total, abs_total)

\* Second loop: cap every article at 25% of |total| (abs_total is taken once,
\* before the loop).
RECURSIVE news_cap_loop(_, _, _, _, _)
news_cap_loop(articles, now, k, total, abs_total) ==
    IF k > Len(articles) THEN [total |-> total, news_articles |-> articles]
    ELSE IF articles[k].published_ts < news_cutoff_30d(now)
    THEN news_cap_loop(articles, now, k + 1, total, abs_total)
    ELSE LET cap == Mul(abs_total, MAX_SINGLE_NEWS_CONTRIBUTION)
             c == articles[k].contribution
         IN  IF Abs(c) > cap
             THEN LET excess == Abs(c) - cap
                  IN  news_cap_loop(
                          [articles EXCEPT ![k].contribution = IF c > 0 THEN cap ELSE -cap],
                          now, k + 1,
                          IF c < 0 THEN total + excess ELSE total - excess,
                          abs_total)
             ELSE news_cap_loop(articles, now, k + 1, total, abs_total)

calculate_news_contribution(news_articles, now) ==
    LET summed == news_sum_loop(news_articles, now, 1, 0)
    IN  IF news_articles # <<>> /\ summed.total # 0
        THEN news_cap_loop(summed.news_articles, now, 1, summed.total, Abs(summed.total))
        ELSE summed

(***************************************************************************)
(* BuzzCalculator.normalize_score                                          *)
(***************************************************************************)
\* Faulty variant: the fallback taken for fewer than 3 peers instead of fewer than 2.
normalize_score_fallback3(raw_buzz, all_scores) ==
    IF Len(all_scores) < 3
    THEN Min(100 * Scale, Max(0, raw_buzz))
    ELSE LET sorted_scores == sorted(all_scores)
             n == Len(sorted_scores)
             p5 == sorted_scores[Max(0, (n * 5) \div 100) + 1]
             p95 == sorted_scores[Min(n - 1, (n * 95) \div 100) + 1]
         IN  IF p95 = p5 THEN 50 * Scale
             ELSE Min(100 * Scale, Max(0, Div(raw_buzz - p5, p95 - p5) * 100))

\* Faulty variant: the rescaled value returned without the clamp to [0, 100].
normalize_score_unclamped(raw_buzz, all_scores) ==
    IF Len(all_scores) < 2
    THEN Min(100 * Scale, Max(0, raw_buzz))
    ELSE LET sorted_scores == sorted(all_scores)
             n == Len(sorted_scores)
             p5 == sorted_scores[Max(0, (n * 5) \div 100) + 1]
             p95 == sorted_scores[Min(n - 1, (n * 95) \div 100) + 1]
         IN  IF p95 = p5 THEN 50 * Scale
             ELSE Div(raw_buzz - p5, p95 - p5) * 100

normalize_score(raw_buzz, all_scores) ==
    IF Len(all_scores) < 2
    THEN Min(100 * Scale, Max(0, raw_buzz))
    ELSE LET sorted_scores == sorted(all_scores)
             n == Len(sorted_scores)
             p5_idx == Max(0, (n * 5) \div 100)
             p95_idx == Min(n - 1, (n * 95) \div 100)
             p5 == sorted_scores[p5_idx + 1]
             p95 == sorted_scores[p95_idx + 1]
         IN  IF p95 = p5 THEN 50 * Scale
             ELSE LET normalized == Div(raw_buzz - p5, p95 - p5) * 100
                  IN  Min(100 * Scale, Max(0, normalized))

(***************************************************************************)
(* BuzzCalculator.calculate_buzz_result                                    *)
(***************************************************************************)
\* all_scores: list[float] = None
None == [is_none |-> TRUE, scores |-> <<>>]

Some(scores) == [is_none |-> FALSE, scores |-> scores]

\* Python truth value of an optional list: None and [] are false.
truthy(all_scores) == ~all_scores.is_none /\ all_scores.scores # <<>>

RECURSIVE max_contribution(_)
max_contribution(mentions) ==
    IF Len(mentions) = 1 THEN mentions[1].contribution
    ELSE Max(mentions[1].contribution, max_contribution(Tail(mentions)))

\* Faulty variant: the whole largest contribution is taken off, not the excess.
cap_mentions_drop_max(raw_buzz_reddit, mentions_30d) ==
    IF mentions_30d # <<>>
    THEN LET m_max == max_contribution(mentions_30d)
         IN  IF m_max > Mul(raw_buzz_reddit, MAX_SINGLE_POST_CONTRIBUTION)
             THEN raw_buzz_reddit - m_max
             ELSE raw_buzz_reddit
    ELSE raw_buzz_reddit

\* The mention cap of calculate_buzz_result, applied to the aggregate only.
cap_mentions(raw_buzz_reddit, mentions_30d) ==
    IF mentions_30d # <<>>
    THEN LET m_max == max_contribution(mentions_30d)
         IN  IF m_max > Mul(raw_buzz_reddit, MAX_SINGLE_POST_CONTRIBUTION)
             THEN raw_buzz_reddit
                    - (m_max - Mul(raw_buzz_reddit, MAX_SINGLE_POST_CONTRIBUTION))
             ELSE raw_buzz_reddit
    ELSE raw_buzz_reddit

\* The score of a result: normalised against the peers, or the heuristic.
buzz_score_of(raw_buzz, all_scores) ==
    IF truthy(all_scores) THEN normalize_score(raw_buzz, all_scores.scores)
    ELSE Min(100 * Scale, RoundDiv(raw_buzz, 2))

\* Faulty variant of in_window: a mention exactly on the cutoff is left out.
in_window_after_cutoff(m, cutoff) == m.created_utc > cutoff

\* m.created_utc >= cutoff, the test of the two window filters.
in_window(m, cutoff) == m.created_utc >= cutoff

\* Faulty variant of negative_ratio_of: every mention that is not positive
\* counts as negative.
negative_ratio_of_non_positive(mentions_30d) ==
    LET IsNegative(m) == m.sentiment # "positive"
        negative_count == Len(SelectSeq(mentions_30d, IsNegative))
    IN  IF mentions_30d # <<>>
        THEN RoundDiv(negative_count * Scale * Scale, Len(mentions_30d))
        ELSE 0

\* negative_count / len(mentions_30d) if mentions_30d else 0, before the
\* rounding of the result: the quotient is kept in units of 1/(Scale*Scale)
\* so that round(negative_ratio, 2) has digits to drop.
negative_ratio_of(mentions_30d) ==
    LET IsNegative(m) == m.sentiment = "negative"
        negative_count == Len(SelectSeq(mentions_30d, IsNegative))
    IN  IF mentions_30d # <<>>
        THEN RoundDiv(negative_count * Scale * Scale, Len(mentions_30d))
        ELSE 0

\* now, now_raw and now_news are the three clock readings of one call: the
\* call's own, calculate_raw_buzz's and calculate_news_contribution's.
\* mentions_30d holds the same objects as mentions, so the contributions
\* written through it show in mentions.
calculate_buzz_result(prospect, mentions, all_scores, news_articles, now, now_raw, now_news) ==
    LET cutoff_30d == now - 30 * 24 * 3600
        cutoff_7d == now - 7 * 24 * 3600
        In30(m) == in_window(m, cutoff_30d)
        In7(m) == in_window(m, cutoff_7d)
        reddit == calculate_raw_buzz(SelectSeq(mentions, In30), now_raw)
        mentions_30d == reddit.mentions
        mentions_7d == SelectSeq(mentions, In7)
        Place(k) == Len(SelectSeq(SubSeq(mentions, 1, k), In30))
        written == [k \in 1..Len(mentions) |->
                      IF In30(mentions[k]) THEN mentions_30d[Place(k)] ELSE mentions[k]]
        assigned == [k \in 1..Len(mentions) |->
                      IF In30(mentions[k]) /\ Place(k) <= reddit.written THEN 1 ELSE 0]
        raw_buzz_reddit == cap_mentions(reddit.total, mentions_30d)
        news == calculate_news_contribution(news_articles, now_news)
        raw_buzz == raw_buzz_reddit + news.total
        buzz_score == buzz_score_of(raw_buzz, all_scores)
        unique_days == Cardinality({mentions_30d[k].created_utc \div DAY :
                                      k \in 1..Len(mentions_30d)})
        negative_ratio == negative_ratio_of(mentions_30d)
    IN  IF reddit.raised
        THEN [raised |-> TRUE, mentions |-> written, assigned |-> assigned,
              news_articles |-> news_articles]
        ELSE [raised |-> FALSE, mentions |-> written, assigned |-> assigned,
              news_articles |-> news.news_articles,
              raw_buzz_reddit |-> raw_buzz_reddit,
              raw_buzz |-> raw_buzz,
              result |-> [prospect_id |-> prospect,
                          buzz_score |-> Round(buzz_score, Scale \div 10),
                          raw_buzz |-> Round(raw_buzz, Scale \div 100),
                          mention_count_7d |-> Len(mentions_7d),
                          mention_count_30d |-> Len(mentions_30d),
                          days_with_mentions |-> unique_days,
                          negative_ratio |-> Round(negative_ratio, Scale) \div Scale,
                          mentions |-> mentions_30d,
                          news_articles |-> news.news_articles,
                          last_updated |-> now]]

(***************************************************************************)
(* Bounds and inputs                                                       *)
(***************************************************************************)
MaxDrift == 1          \* seconds the wall clock may advance in a behaviour

MaxPeers == 3          \* peers handed to a single normalize_score call

MaxNewsLen == 7        \* articles handed to a single calculate_news_contribution

MaxRawMentions == 2    \* mentions handed to a single calculate_raw_buzz call

MaxCapMentions == 4    \* mentions handed to a single calculate_buzz_result call

Now0 == 40 * DAY

MaxClock == Now0 + MaxDrift

SeqsUpTo(S, n) == UNION {[1..k -> S] : k \in 0..n}

\* Reddit ids are unique within a list (search_prospect deduplicates by id).
MentionLists(S, n) ==
    {[k \in 1..Len(s) |-> [s[k] EXCEPT !.id = k]] : s \in SeqsUpTo(S, n)}

\* The articles search_prospect builds from the items of one API response.
NewsLists(S, n) ==
    {[k \in 1..Len(s) |-> NewsArticle(k, published_ts(s[k]), s[k].sentiment)] :
        s \in SeqsUpTo(S, Min(n, GNEWS_MAX_ARTICLES))}

Item(publishedAt, ts, sentiment) ==
    [publishedAt |-> publishedAt, ts |-> ts, sentiment |-> sentiment]

NormRaws == {-5 * Scale, 0, 20 * Scale, 50 * Scale, 100 * Scale, 150 * Scale}

PeerValues == {-10 * Scale, 10 * Scale, 10 * Scale + 1, 50 * Scale, 120 * Scale}

\* The last item lies exactly on the edge of the 30-day window at Now0: it is
\* scored by a call that reads Now0 and excluded by a later one.
NewsItems ==
    {Item("iso", Now0, "neutral"), Item("iso", Now0, "negative"),
     Item("iso", Now0 - 30 * DAY, "positive")}

RawMentionInputs ==
    {Mention(0, sub, "title", score, 0, created, "neutral", 100) :
        sub \in {"baseball"}, score \in {-2, -1, 0, 99},
        created \in {Now0 - 7 * DAY, Now0, Now0 + 1, Now0 + DAY}}
    \cup {Mention(0, "fantasybaseball", "comment", 9, 9, Now0 - DAY, "negative", 80),
          Mention(0, "r/other", "body", 0, 2, Now0 - 30 * DAY, "positive", 100)}

CapMentionInputs ==
    {Mention(0, "baseball", "title", 99, 0, Now0, "neutral", 100),
     Mention(0, "fantasybaseball", "comment", 0, 9, Now0 - 7 * DAY, "negative", 80),
     Mention(0, "MLBProspects", "body", 9, 0, Now0 - 31 * DAY, "positive", 100)}

CapNewsItems ==
    {Item("iso", Now0, "negative"), Item("missing", 0, "positive")}

CapPeers == {None, Some(<<>>), Some(<<0>>), Some(<<0, 10 * Scale>>)}

MaxProspects == 2      \* prospects of a batch

MaxMentions == 3       \* mentions scraped for one prospect

MaxNews == 2           \* articles scraped for one prospect

\* What Reddit returns for a prospect: a prefix of this stream of posts.
\* The first post lies exactly on the edge of the 30-day window at Now0.
MentionStream(k) ==
    CASE k % 3 = 1 -> Mention(k, "baseball", "title", 99, 0, Now0 - 30 * DAY, "neutral", 100)
      [] k % 3 = 2 -> Mention(k, "fantasybaseball", "comment", 9, 9, Now0 - DAY, "negative", 80)
      [] OTHER -> Mention(k, "MLBProspects", "body", 0, 0, Now0 - 31 * DAY, "positive", 100)

\* What GNews returns for a prospect: a prefix of this stream of items.  The
\* first item lies exactly on the edge of the 30-day window at Now0.
NewsStream(k) ==
    CASE k % 3 = 1 -> Item("iso", Now0 - 30 * DAY, "positive")
      [] k % 3 = 2 -> Item("iso", Now0, "negative")
      [] OTHER -> Item("garbage", 0, "negative")

ScrapedMentions == {[k \in 1..n |-> MentionStream(k)] : n \in 0..MaxMentions}

ScrapedNews ==
    {[k \in 1..n |-> NewsArticle(k, published_ts(NewsStream(k)), NewsStream(k).sentiment)] :
        n \in 0..Min(MaxNews, GNEWS_MAX_ARTICLES)}

NoCall == [op |-> "none", state |-> "none"]

\* No batch is running: the variables of main keep their initial values.
NoBatch ==
    /\ all_results = <<>>
    /\ all_raw_scores = <<>>
    /\ final_results = <<>>
    /\ pc = "idle"
    /\ run = "first"
    /\ prev_results = <<>>
    /\ nows = [r \in {"first", "second"} |-> {}]
    /\ raw_pass2 = <<>>
    /\ writes = <<>>

batch_vars == <<all_results, all_raw_scores, final_results, pc, run, prev_results,
                nows, raw_pass2, writes>>

(***************************************************************************)
(* A single call of normalize_score                                        *)
(***************************************************************************)
InitNormalize ==
    /\ NoBatch
    /\ clock = Now0
    /\ call \in {[op |-> "normalize_score", state |-> "ready", raw_buzz |-> x,
                  all_scores |-> s, ret |-> 0] :
                    x \in NormRaws, s \in SeqsUpTo(PeerValues, MaxPeers)}

CallNormalize ==
    /\ call.op = "normalize_score"
    /\ call.state = "ready"
    /\ call' = [call EXCEPT !.state = "returned",
                            !.ret = normalize_score(call.raw_buzz, call.all_scores)]
    /\ UNCHANGED <<clock, batch_vars>>

SpecNormalize == InitNormalize /\ [][CallNormalize]_vars

(***************************************************************************)
(* A single call of calculate_news_contribution                            *)
(***************************************************************************)
InitNews ==
    /\ NoBatch
    /\ clock = Now0
    /\ call \in {[op |-> "calculate_news_contribution", state |-> "ready",
                  news_articles |-> a, now |-> 0, total |-> 0,
                  pass |-> "none"] :
                    a \in NewsLists(NewsItems, MaxNewsLen)}

\* The function is called on a list twice, once in each pass of main: in
\* the second call the articles carry what the first call stored.
CallNews ==
    /\ call.op = "calculate_news_contribution"
    /\ call.pass \in {"none", "pass1"}
    /\ \E now \in clock..MaxClock :
        LET r == calculate_news_contribution(call.news_articles, now)
        IN  /\ call' = [call EXCEPT !.state = "returned", !.now = now,
                                    !.total = r.total,
                                    !.news_articles = r.news_articles,
                                    !.pass = IF @ = "none" THEN "pass1" ELSE "pass2"]
            /\ clock' = now
    /\ UNCHANGED batch_vars

SpecNews == InitNews /\ [][CallNews]_vars

(***************************************************************************)
(* A single call of calculate_raw_buzz                                     *)
(***************************************************************************)
InitRawBuzz ==
    /\ NoBatch
    /\ clock = Now0
    /\ call \in {[op |-> "calculate_raw_buzz", state |-> "ready", mentions |-> m,
                  now |-> 0, total |-> 0] :
                    m \in MentionLists(RawMentionInputs, MaxRawMentions)}

CallRawBuzz ==
    /\ call.op = "calculate_raw_buzz"
    /\ call.state = "ready"
    /\ \E now \in clock..MaxClock :
        LET r == calculate_raw_buzz(call.mentions, now)
        IN  /\ call' = [call EXCEPT !.state = IF r.raised THEN "raised" ELSE "returned",
                                    !.now = now,
                                    !.total = r.total,
                                    !.mentions = r.mentions]
            /\ clock' = now
    /\ UNCHANGED batch_vars

SpecRawBuzz == InitRawBuzz /\ [][CallRawBuzz]_vars

(***************************************************************************)
(* A single call of calculate_buzz_result                                  *)
(***************************************************************************)
InitBuzzResult ==
    /\ NoBatch
    /\ clock = Now0
    /\ call \in {[op |-> "calculate_buzz_result", state |-> "ready", mentions |-> m,
                  news_articles |-> a, all_scores |-> p, now |-> 0,
                  raw_buzz_reddit |-> 0, raw_buzz |-> 0, result |-> <<>>] :
                    m \in MentionLists(CapMentionInputs, MaxCapMentions),
                    a \in NewsLists(CapNewsItems, 1),
                    p \in CapPeers}

CallBuzzResult ==
    /\ call.op = "calculate_buzz_result"
    /\ call.state = "ready"
    /\ \E now \in clock..MaxClock :
       \E now_raw \in now..MaxClock :
       \E now_news \in now_raw..MaxClock :
        LET r == calculate_buzz_result(1, call.mentions, call.all_scores,
                                       call.news_articles, now, now_raw, now_news)
        IN  /\ call' = IF r.raised
                       THEN [call EXCEPT !.state = "raised", !.now = now,
                                         !.mentions = r.mentions]
                       ELSE [call EXCEPT !.state = "returned", !.now = now,
                                         !.mentions = r.mentions,
                                         !.news_articles = r.news_articles,
                                         !.raw_buzz_reddit = r.raw_buzz_reddit,
                                         !.raw_buzz = r.raw_buzz,
                                         !.result = r.result]
            /\ clock' = now_news
    /\ UNCHANGED batch_vars

SpecBuzzResult == InitBuzzResult /\ [][CallBuzzResult]_vars

(***************************************************************************)
(* Properties of the single calls                                          *)
(***************************************************************************)
Returned(op) == call.op = op /\ call.state = "returned"

AllEqual(s) == \A i, j \in 1..Len(s) : s[i] = s[j]

Contributions(items) == [k \in 1..Len(items) |-> items[k].contribution]

\* C1: every result of calculate_buzz_result has 0 <= buzz_score <= 100,
\* whatever the mentions, the news and the peer batch (None and [] included).
C1_ScoreBounded ==
    Returned("calculate_buzz_result")
        => /\ call.result.buzz_score >= 0
           /\ call.result.buzz_score <= 100 * Scale

\* C3: the total calculate_news_contribution returns is no larger in
\* magnitude than the uncapped sum of the contributions of the articles
\* inside the window.
C3_NewsCapShrinks ==
    Returned("calculate_news_contribution")
        => Abs(call.total) <= Abs(news_sum_loop(call.news_articles, call.now, 1, 0).total)

\* The articles of the finished calculate_news_contribution call that the
\* call did not exclude: those inside its 30-day window.
NewsInWindow(articles, now) ==
    {k \in 1..Len(articles) : articles[k].published_ts >= now - 30 * DAY}

RECURSIVE SumOver(_, _)
SumOver(f, S) ==
    IF S = {} THEN 0
    ELSE LET k == CHOOSE x \in S : TRUE
         IN  f[k] + SumOver(f, S \ {k})

Sign(x) == IF x > 0 THEN 1 ELSE IF x < 0 THEN -1 ELSE 0

C13_ZeroTotalReached ==
    /\ Returned("calculate_news_contribution")
    /\ call.news_articles # <<>>
    /\ call.total = 0
    /\ news_sum_loop(call.news_articles, call.now, 1, 0).total = 0

\* C4 as stated: normalize_score returns exactly 50.0 whenever all peers are
\* equal, a list of one peer included.
C4_EqualPeersGive50 ==
    (Returned("normalize_score") /\ Len(call.all_scores) >= 1 /\ AllEqual(call.all_scores))
        => call.ret = 50 * Scale

\* C4 as amended: normalize_score returns exactly 50.0 whenever there are at
\* least two peers and all of them are equal.
C4_TwoEqualPeersGive50 ==
    (Returned("normalize_score") /\ Len(call.all_scores) >= 2 /\ AllEqual(call.all_scores))
        => call.ret = 50 * Scale

C4_Witness ==
    /\ Returned("normalize_score")
    /\ Len(call.all_scores) >= 2
    /\ AllEqual(call.all_scores)
    /\ call.raw_buzz > 100 * Scale
    /\ call.ret = 50 * Scale

\* C5: for fixed peers normalize_score is non-decreasing in the raw value and
\* every result lies in [0, 100]: the value returned is compared with the
\* value for every other raw value.
C5_Monotone ==
    Returned("normalize_score")
        => /\ call.ret >= 0
           /\ call.ret <= 100 * Scale
           /\ \A y \in NormRaws :
                /\ y <= call.raw_buzz => normalize_score(y, call.all_scores) <= call.ret
                /\ y >= call.raw_buzz => normalize_score(y, call.all_scores) >= call.ret

C5_Witness ==
    /\ Returned("normalize_score")
    /\ Len(call.all_scores) >= 2
    /\ ~AllEqual(call.all_scores)
    /\ call.ret > 0
    /\ call.ret < 100 * Scale
    /\ \E y \in NormRaws :
        y < call.raw_buzz /\ normalize_score(y, call.all_scores) < call.ret

\* C6: calculate_raw_buzz never raises, also for negative engagement scores,
\* and every mention gets a contribution >= 0.
C6_NeverRaises ==
    (call.op = "calculate_raw_buzz" /\ call.state # "ready")
        => /\ call.state = "returned"
           /\ \A k \in 1..Len(call.mentions) : call.mentions[k].contribution >= 0

\* C7: a mention created after now is decayed with days_old = 0, that is, it
\* gets the contribution of the same mention created exactly at now.
C7_FutureIsDayZero ==
    Returned("calculate_raw_buzz")
        => \A k \in 1..Len(call.mentions) :
            LET m == call.mentions[k]
            IN  m.created_utc > call.now
                  => /\ days_old(m, call.now) = 0
                     /\ m.contribution
                          = mention_contribution([m EXCEPT !.created_utc = call.now],
                                                 call.now)

\* C8: with T the sum of the 30-day mention contributions and m_max the
\* largest, the capped mention aggregate is T - (m_max - 0.25 * T) when
\* m_max > 0.25 * T (so it is <= T) and T otherwise; T = 0 is left alone.
C8_MentionCap ==
    Returned("calculate_buzz_result")
        => LET ms == call.result.mentions
               T == Sum(Contributions(ms))
               quarter == Mul(T, MAX_SINGLE_POST_CONTRIBUTION)
           IN  /\ T = 0 => call.raw_buzz_reddit = 0
               /\ ms # <<>> =>
                    LET m_max == max_contribution(ms)
                    IN  IF m_max > quarter
                        THEN /\ call.raw_buzz_reddit = T - (m_max - quarter)
                             /\ call.raw_buzz_reddit <= T
                        ELSE call.raw_buzz_reddit = T

C8_Witness ==
    /\ Returned("calculate_buzz_result")
    /\ Len(call.result.mentions) >= 2
    /\ call.raw_buzz_reddit < Sum(Contributions(call.result.mentions))
    /\ call.raw_buzz_reddit > 0

\* The other case of C8: several mentions, none above a quarter of the sum.
C8_UncappedReached ==
    /\ Returned("calculate_buzz_result")
    /\ call.result.mentions # <<>>
    /\ call.raw_buzz_reddit = Sum(Contributions(call.result.mentions))

\* The mentions of the finished calculate_buzz_result call that lie inside
\* the 30-day window of the call's own reading of the clock.
Window30(mentions, now) ==
    LET Inside(m) == m.created_utc >= now - 30 * DAY
    IN  SelectSeq(mentions, Inside)

NegativeCount(mentions) ==
    LET Negative(m) == m.sentiment = "negative"
    IN  Len(SelectSeq(mentions, Negative))

\* C11 as stated: negative_ratio of a result is exactly 0 when no mention of
\* the call lies in the 30-day window, and otherwise equals the number of
\* negative 30-day mentions divided by the number of 30-day mentions, older
\* mentions being counted in neither.
C11_NegativeRatioIsQuotient ==
    Returned("calculate_buzz_result")
        => LET recent == Window30(call.mentions, call.now)
           IN  IF recent = <<>>
               THEN call.result.negative_ratio = 0
               ELSE call.result.negative_ratio * Len(recent)
                        = NegativeCount(recent) * Scale

\* C11 amended: negative_ratio is exactly 0 when no mention lies in the
\* 30-day window, and otherwise is the quotient of negative 30-day mentions
\* by 30-day mentions rounded to 2 decimals (within 0.005 of the quotient and
\* a whole number of hundredths); older mentions are counted in neither.
C11_NegativeRatioRounded ==
    Returned("calculate_buzz_result")
        => LET recent == Window30(call.mentions, call.now)
               hundredths == (call.result.negative_ratio * 100) \div Scale
           IN  IF recent = <<>>
               THEN call.result.negative_ratio = 0
               ELSE /\ hundredths * Scale = call.result.negative_ratio * 100
                    /\ 2 * Abs(call.result.negative_ratio * Len(recent)
                                 - NegativeCount(recent) * Scale)
                          <= Len(recent)

\* One negative mention among three 30-day mentions, next to a mention older
\* than 30 days: the quotient 1/3 is not a whole number of hundredths.
C11_Witness ==
    /\ Returned("calculate_buzz_result")
    /\ LET recent == Window30(call.mentions, call.now)
       IN  /\ Len(recent) < Len(call.mentions)
           /\ Len(recent) = 3
           /\ NegativeCount(recent) = 1
           /\ call.result.negative_ratio = (33 * Scale) \div 100

\* The empty window of C11: every mention of the call is older than 30 days.
C11_EmptyWindowReached ==
    /\ Returned("calculate_buzz_result")
    /\ call.mentions # <<>>
    /\ Window30(call.mentions, call.now) = <<>>
    /\ call.result.negative_ratio = 0

(***************************************************************************)
(* main: the two-pass batch                                                *)
(***************************************************************************)
Init ==
    /\ clock = Now0
    /\ all_results = <<>>
    /\ all_raw_scores = <<>>
    /\ final_results = <<>>
    /\ pc = "pass1"
    /\ run = "first"
    /\ prev_results = <<>>
    /\ nows = [r \in {"first", "second"} |-> {}]
    /\ raw_pass2 = <<>>
    /\ writes = <<>>
    /\ call = NoCall

\* Body of the first loop for one prospect, on its item lists: the raw score
\* of all mentions plus the news total goes to the peer batch.  i is the
\* prospect's place in all_results.  An exception ends the program.
Pass1(i, mentions, news_articles, now_raw, now_news) ==
    LET reddit == calculate_raw_buzz(mentions, now_raw)
        news == calculate_news_contribution(news_articles, now_news)
        entry == [mentions |-> reddit.mentions, news_articles |-> news.news_articles]
        before == IF i > Len(writes) THEN [k \in 1..Len(mentions) |-> 0] ELSE writes[i]
        after == [k \in 1..Len(mentions) |->
                    before[k] + IF k <= reddit.written THEN 1 ELSE 0]
    IN  /\ writes' = IF i > Len(writes)
                     THEN Append(writes, after)
                     ELSE [writes EXCEPT ![i] = after]
        /\ IF reddit.raised
           THEN /\ pc' = "crashed"
                /\ clock' = now_raw
                /\ nows' = [nows EXCEPT ![run] = @ \cup {now_raw}]
                /\ UNCHANGED <<all_results, all_raw_scores>>
           ELSE /\ all_raw_scores' = Append(all_raw_scores, reddit.total + news.total)
                /\ all_results' = IF i > Len(all_results)
                                  THEN Append(all_results, entry)
                                  ELSE [all_results EXCEPT ![i] = entry]
                /\ clock' = now_news
                /\ nows' = [nows EXCEPT ![run] = @ \cup {now_raw, now_news}]
                /\ pc' = "pass1"

\* In the loops below every reading of the clock returns a value between the
\* last reading and latest.

\* First loop, one prospect: scrape Reddit and GNews, then score.
ScanProspect(latest) ==
    /\ pc = "pass1"
    /\ run = "first"
    /\ Len(all_results) < MaxProspects
    /\ \E mentions \in ScrapedMentions, news_articles \in ScrapedNews :
       \E now_raw \in clock..latest :
       \E now_news \in now_raw..latest :
          Pass1(Len(all_results) + 1, mentions, news_articles, now_raw, now_news)
    /\ UNCHANGED <<final_results, run, prev_results, raw_pass2, call>>

\* First loop of a second run over the item lists kept from the first run.
RescanProspect(latest) ==
    /\ pc = "pass1"
    /\ run = "second"
    /\ Len(all_raw_scores) < Len(all_results)
    /\ LET i == Len(all_raw_scores) + 1
       IN  \E now_raw \in clock..latest :
           \E now_news \in now_raw..latest :
              Pass1(i, all_results[i].mentions, all_results[i].news_articles,
                    now_raw, now_news)
    /\ UNCHANGED <<final_results, run, prev_results, raw_pass2, call>>

\* The first loop has gone through all prospects.
BeginPass2 ==
    /\ pc = "pass1"
    /\ run = "first" \/ Len(all_raw_scores) = Len(all_results)
    /\ pc' = "pass2"
    /\ UNCHANGED <<clock, all_results, all_raw_scores, final_results, run,
                   prev_results, nows, raw_pass2, writes, call>>

\* Second loop, one prospect: calculate_buzz_result against the peer batch.
FinalizeProspect(latest) ==
    /\ pc = "pass2"
    /\ Len(final_results) < Len(all_results)
    /\ LET i == Len(final_results) + 1
       IN  \E now \in clock..latest :
           \E now_raw \in now..latest :
           \E now_news \in now_raw..latest :
             LET r == calculate_buzz_result(i, all_results[i].mentions,
                                            Some(all_raw_scores),
                                            all_results[i].news_articles,
                                            now, now_raw, now_news)
             IN  /\ writes' = [writes EXCEPT ![i] =
                                [k \in 1..Len(@) |-> @[k] + r.assigned[k]]]
                 /\ IF r.raised
                    THEN /\ pc' = "crashed"
                         /\ clock' = now_raw
                         /\ nows' = [nows EXCEPT ![run] = @ \cup {now, now_raw}]
                         /\ UNCHANGED <<all_results, final_results, raw_pass2>>
                    ELSE /\ final_results' = Append(final_results, r.result)
                         /\ raw_pass2' = Append(raw_pass2, r.raw_buzz)
                         /\ all_results' =
                               [all_results EXCEPT ![i] =
                                   [mentions |-> r.mentions,
                                    news_articles |-> r.news_articles]]
                         /\ clock' = now_news
                         /\ nows' = [nows EXCEPT ![run] = @ \cup {now, now_raw, now_news}]
                         /\ pc' = "pass2"
    /\ UNCHANGED <<all_raw_scores, run, prev_results, call>>

\* final_results.sort(key=buzz_score, reverse=True): stable, descending.
RECURSIVE sort_by_buzz_score(_)
sort_by_buzz_score(results) ==
    IF results = <<>> THEN <<>>
    ELSE LET rest == sort_by_buzz_score(Tail(results))
             higher == SelectSeq(rest, LAMBDA r : r.buzz_score > Head(results).buzz_score)
             others == SelectSeq(rest, LAMBDA r : r.buzz_score <= Head(results).buzz_score)
         IN  higher \o <<Head(results)>> \o others

\* All prospects are finalized: sort and save.
SaveResults ==
    /\ pc = "pass2"
    /\ Len(final_results) = Len(all_results)
    /\ final_results' = sort_by_buzz_score(final_results)
    /\ pc' = "done"
    /\ UNCHANGED <<clock, all_results, all_raw_scores, run, prev_results, nows,
                   raw_pass2, writes, call>>

\* The whole batch computation is run again on the item lists of the first
\* run, which carry the contributions the first run wrote.
Rerun ==
    /\ pc = "done"
    /\ run = "first"
    /\ run' = "second"
    /\ prev_results' = final_results
    /\ final_results' = <<>>
    /\ all_raw_scores' = <<>>
    /\ raw_pass2' = <<>>
    /\ writes' = [i \in 1..Len(writes) |-> [k \in 1..Len(writes[i]) |-> 0]]
    /\ pc' = "pass1"
    /\ UNCHANGED <<clock, all_results, nows, call>>

\* The batch while the wall clock advances, by at most MaxDrift seconds.
Next ==
    \/ ScanProspect(MaxClock)
    \/ RescanProspect(MaxClock)
    \/ BeginPass2
    \/ FinalizeProspect(MaxClock)
    \/ SaveResults
    \/ Rerun

Spec == Init /\ [][Next]_vars

\* The batch with now held fixed: every reading of the clock returns Now0.
NextFixedNow ==
    \/ ScanProspect(Now0)
    \/ RescanProspect(Now0)
    \/ BeginPass2
    \/ FinalizeProspect(Now0)
    \/ SaveResults
    \/ Rerun

SpecFixedNow == Init /\ [][NextFixedNow]_vars

(***************************************************************************)
(* Properties of the batch                                                 *)
(***************************************************************************)
\* The clock did not advance between the steps of the runs so far.
FixedNow == Cardinality(nows["first"] \cup nows["second"]) <= 1

\* C2: with the clock held fixed, the value pass 1 appended to the peer
\* batch for a prospect equals the raw_buzz pass 2 computes for it.
C2_PassesAgree ==
    FixedNow => \A i \in 1..Len(raw_pass2) : all_raw_scores[i] = raw_pass2[i]

\* C9: in every result of the batch, an article whose timestamp is unknown
\* (0) or older than 30 days before the result's now has contribution 0.
C9_ExcludedNewsIsZero ==
    \A k \in 1..Len(final_results) :
        \A j \in 1..Len(final_results[k].news_articles) :
            LET article == final_results[k].news_articles[j]
            IN  (\/ article.published_ts = 0
                 \/ article.published_ts < final_results[k].last_updated - 30 * DAY)
                    => article.contribution = 0

\* C10: a second run of the two-pass batch on the same item lists with the
\* same fixed now yields the ScoreResults of the first run.
C10_RerunIdentical ==
    (pc = "done" /\ run = "second" /\ FixedNow) => final_results = prev_results

C10_Witness ==
    /\ pc = "done"
    /\ run = "second"
    /\ FixedNow
    /\ Len(final_results) >= 2
    /\ final_results = prev_results
    /\ \E k \in 1..Len(final_results) :
        /\ Len(final_results[k].mentions) >= 2
        /\ final_results[k].mentions[1].contribution > 0
        /\ Len(final_results[k].news_articles) >= 2
        /\ final_results[k].news_articles[2].contribution < 0

\* C12: within one run of the batch the current time is captured once: all
\* window filters and decay computations of both passes of a run observe
\* one and the same value of now, also when the wall clock advances.
C12_NowCapturedOnce ==
    \A r \in {"first", "second"} : Cardinality(nows[r]) <= 1

\* A mention without its contribution: the fields the scrapers filled in.
Scraped(m) == [m EXCEPT !.contribution = 0]

\* No field of a mention other than contribution differs from what Reddit
\* returned for it.
OtherFieldsKept ==
    \A i \in 1..Len(all_results) :
        \A k \in 1..Len(all_results[i].mentions) :
            Scraped(all_results[i].mentions[k]) = Scraped(MentionStream(k))

\* The now of the pass-2 call that produced the result of prospect i.
FinalizedAt(i) ==
    LET k == CHOOSE j \in 1..Len(final_results) : final_results[j].prospect_id = i
    IN  final_results[k].last_updated

\* C14 as stated: over a whole two-pass run the contribution of each mention
\* is written exactly once, and no other field of a mention is ever written.
C14_ContributionWrittenOnce ==
    /\ OtherFieldsKept
    /\ pc = "done" =>
          \A i \in 1..Len(writes) : \A k \in 1..Len(writes[i]) : writes[i][k] = 1

\* C14 amended: over a whole two-pass run the contribution of each mention
\* is written once in pass 1 and once more in pass 2 if the mention lies in
\* the 30-day window of the pass-2 call, never more than twice; no other
\* field of a mention is ever written.
C14_ContributionWrittenOncePerPass ==
    /\ OtherFieldsKept
    /\ \A i \in 1..Len(writes) : \A k \in 1..Len(writes[i]) : writes[i][k] <= 2
    /\ pc = "done" =>
          \A i \in 1..Len(writes) : \A k \in 1..Len(writes[i]) :
              writes[i][k] =
                  IF all_results[i].mentions[k].created_utc >= FinalizedAt(i) - 30 * DAY
                  THEN 2 ELSE 1

\* A finished run with a prospect of which one mention was written in both
\* passes and another, older than 30 days, in pass 1 only.
C14_Witness ==
    /\ pc = "done"
    /\ \E i \in 1..Len(writes) :
        \E k, j \in 1..Len(writes[i]) :
            /\ writes[i][k] = 2
            /\ all_results[i].mentions[k].contribution # 0
            /\ writes[i][j] = 1
            /\ all_results[i].mentions[j].created_utc < FinalizedAt(i) - 30 * DAY

====
